---- MODULE Spec2Model ----
(***************************************************************************)
(* Daily work-summary generation pipeline of vibereview-api.                *)
(*                                                                         *)
(* The module models the two POST /generate-summary handlers (the guest    *)
(* route and the teams route), the daily_ai_summaries table they share,    *)
(* the session store they extract from, and the response parsers           *)
(* parseSummaryJson / parseSummaryMarkdown they run on the model output.   *)
(* The range handler (RangeSpec), parseSummaryJson on its own (ParserSpec) *)
(* and the prompt builder generateSummaryPrompt (PromptSpec) have their    *)
(* own specifications over the same variables.                             *)
(*                                                                         *)
(* Conventions                                                             *)
(*  - JSON values are tagged records [t, v].  Numbers are integers in      *)
(*    hundredths (0.85 is 85, 100 percent is 10000), strings are           *)
(*    <<tag, length>> pairs: the first `length` characters of the text     *)
(*    named `tag`, so that substring(0, n) is a cut of the length.         *)
(*  - Objects are functions from keys to values; keys are iterated in      *)
(*    the order of KeyOrder.                                                *)
(***************************************************************************)
EXTENDS Integers, Sequences, FiniteSets, TLC

(***************************************************************************)
(* JSON values                                                             *)
(***************************************************************************)
JUndef == [t |-> "undefined", v |-> 0]
JNull == [t |-> "null", v |-> 0]
JBool(b) == [t |-> "bool", v |-> b]
JNum(n) == [t |-> "num", v |-> n]
JStr(tag, len) == [t |-> "str", v |-> <<tag, len>>]
JArr(s) == [t |-> "arr", v |-> s]
JObj(f) == [t |-> "obj", v |-> f]
EmptyObj == JObj(<<>>)

\* JavaScript truthiness of a value
Truthy(x) ==
  CASE x.t = "undefined" -> FALSE
    [] x.t = "null" -> FALSE
    [] x.t = "bool" -> x.v
    [] x.t = "num" -> x.v # 0
    [] x.t = "str" -> x.v[2] > 0
    [] OTHER -> TRUE

\* typeof x === 'object' for a non-null x (arrays included)
IsObjectType(x) == x.t \in {"obj", "arr"}

\* property access x[k] with a string key on a non-null value
Get(x, k) ==
  IF x.t = "obj" /\ k \in DOMAIN x.v THEN x.v[k] ELSE JUndef

\* a || b
OrElse(a, b) == IF Truthy(a) THEN a ELSE b

Min(a, b) == IF a < b THEN a ELSE b
Max(a, b) == IF a > b THEN a ELSE b

\* s.substring(0, n) on a string value
Substring(s, n) == JStr(s.v[1], Min(s.v[2], n))

\* String(x)
ToStr(x) == IF x.t = "str" THEN x ELSE JStr("coerced", 1)

\* the order in which the keys of an object are visited
KeyOrder == <<"p", "q", "0", "1">>

RECURSIVE KeysFrom(_, _)
KeysFrom(dom, i) ==
  IF i > Len(KeyOrder) THEN <<>>
  ELSE IF KeyOrder[i] \in dom THEN <<KeyOrder[i]>> \o KeysFrom(dom, i + 1)
  ELSE KeysFrom(dom, i + 1)

\* Object.keys(x) for an object or an array
ObjectKeys(x) ==
  IF x.t = "obj" THEN KeysFrom(DOMAIN x.v, 1)
  ELSE IF x.t = "arr" THEN [i \in 1..Len(x.v) |-> ToString(i - 1)]
  ELSE <<>>

\* x[k] where k came from Object.keys(x)
GetEntry(x, k) ==
  IF x.t = "arr"
  THEN LET idx == CHOOSE i \in 1..Len(x.v) : ToString(i - 1) = k IN x.v[idx]
  ELSE Get(x, k)

(***************************************************************************)
(* Model output texts                                                      *)
(* A text is an optional wrapper around a body, which is either JSON or    *)
(* not (Garbage); `md` is what the markdown parser's regexes find in it.   *)
(* wrap is "none", "json_fence" (```json ... ```) or "plain_fence"         *)
(* (``` ... ``` without the json tag, which the extraction does not match).*)
(***************************************************************************)
Garbage == [t |-> "garbage", v |-> 0]

NoMarkdown == [daily |-> JUndef, projects |-> <<>>]

\* `id` names the characters of the text: two texts are the same text exactly
\* when all four fields agree
Text(id, wrap, body, md) == [id |-> id, wrap |-> wrap, body |-> body, md |-> md]

(***************************************************************************)
(* summary-parser.ts (JSON version)                                        *)
(***************************************************************************)
Err(code, key, n) == [code |-> code, key |-> key, n |-> n]

validCategories ==
  <<"planning", "frontend", "backend", "qa", "devops", "research", "other">>

CategoryNames == {validCategories[i] : i \in 1..Len(validCategories)}

getEmptyWorkCategories ==
  [c \in CategoryNames |-> [minutes |-> 0, percentage |-> 0, description |-> JNull]]

\* the ```json ... ``` block when there is one, else the whole trimmed text
extractJsonFromResponse(text) ==
  IF text.wrap = "json_fence" /\ text.body # Garbage
  THEN [wrap |-> "none", body |-> text.body]
  ELSE [wrap |-> text.wrap, body |-> text.body]

\* JSON.parse: fails on anything that is not bare JSON
JSONparse(payload) ==
  IF payload.wrap = "none" /\ payload.body # Garbage
  THEN [ok |-> TRUE, value |-> payload.body]
  ELSE [ok |-> FALSE, value |-> JUndef]

MaxQualityScore == 100
MaxPercentage == 10000
PercentageTarget == 10000
PercentageTolerance == 100
MaxExplanationLen == 300

\* result[category] for a category whose entry `cat` is a non-null object
validatedCategory(cat) ==
  [minutes |-> IF Get(cat, "minutes").t = "num"
               THEN Max(0, Get(cat, "minutes").v) ELSE 0,
   percentage |-> IF Get(cat, "percentage").t = "num"
                  THEN Max(0, Min(MaxPercentage, Get(cat, "percentage").v))
                  ELSE 0,
   description |-> OrElse(Get(cat, "description"), JNull)]

validateCategory(cat, category) ==
  IF Truthy(cat) /\ IsObjectType(cat)
  THEN validatedCategory(cat)
  ELSE getEmptyWorkCategories[category]

RECURSIVE SumPercentage(_, _)
SumPercentage(wc, i) ==
  IF i > Len(validCategories) THEN 0
  ELSE wc[validCategories[i]].percentage + SumPercentage(wc, i + 1)

Abs(x) == IF x < 0 THEN -x ELSE x

\* the check of the sum once the categories are validated
checkPercentage(result, totalPercentage, errors) ==
  [result |-> result,
   errors |-> IF totalPercentage > 0
                 /\ Abs(totalPercentage - PercentageTarget) > PercentageTolerance
              THEN Append(errors, Err("percentage_sum", "", totalPercentage))
              ELSE errors]

withTotal(result, errors) ==
  checkPercentage(result, SumPercentage(result, 1), errors)

\* returns the validated categories and the error list
validateWorkCategories(categories, errors) ==
  withTotal([c \in CategoryNames |-> validateCategory(Get(categories, c), c)],
            errors)

\* the todo pushed for a valid item
validTodo(text, c) ==
  [text |-> ToStr(text),
   category |-> IF c.t = "str" /\ c.v[1] \in CategoryNames THEN c.v[1] ELSE "other"]

\* one step of project.todos.forEach on the accumulated todos and errors
validateTodoItem(todo, slug, i, acc) ==
  IF Truthy(todo) /\ IsObjectType(todo) /\ Truthy(Get(todo, "text"))
  THEN [todos |-> Append(acc.todos, validTodo(Get(todo, "text"), Get(todo, "category"))),
        errors |-> acc.errors]
  ELSE [todos |-> acc.todos,
        errors |-> Append(acc.errors, Err("todo_invalid", slug, i))]

RECURSIVE validateTodoItems(_, _, _, _)
\* project.todos.forEach: returns the pushed todos and the errors
validateTodoItems(items, slug, i, acc) ==
  IF i > Len(items) THEN acc
  ELSE validateTodoItems(items, slug, i + 1,
                         validateTodoItem(items[i], slug, i, acc))

\* the todos of a project entry and the errors after it
projectTodoItems(items, slug, errors) ==
  IF items.t = "arr"
  THEN validateTodoItems(items.v, slug, 1, [todos |-> <<>>, errors |-> errors])
  ELSE [todos |-> <<>>, errors |-> Append(errors, Err("todos_not_array", slug, 0))]

\* result[slug] = {project_id, project_name, todos}
withProject(acc, slug, project, done) ==
  [result |-> [k \in DOMAIN acc.result \cup {slug} |->
                 IF k = slug
                 THEN [project_id |-> OrElse(Get(project, "project_id"), JNull),
                       project_name |-> OrElse(Get(project, "project_name"),
                                               JStr(slug, 1)),
                       todos |-> done.todos]
                 ELSE acc.result[k]],
   errors |-> done.errors]

\* one step of Object.keys(todos).forEach
validateProject(acc, slug, project) ==
  IF Truthy(project) /\ IsObjectType(project)
  THEN withProject(acc, slug, project,
                   projectTodoItems(Get(project, "todos"), slug, acc.errors))
  ELSE acc

RECURSIVE validateProjectTodosFrom(_, _, _, _)
validateProjectTodosFrom(todos, keys, i, acc) ==
  IF i > Len(keys) THEN acc
  ELSE validateProjectTodosFrom(todos, keys, i + 1,
         validateProject(acc, keys[i], GetEntry(todos, keys[i])))

\* returns the validated projects and the error list
validateProjectTodos(todos, errors) ==
  validateProjectTodosFrom(todos, ObjectKeys(todos), 1,
                           [result |-> <<>>, errors |-> errors])

DefaultParsed ==
  [summary |-> <<>>,
   work_categories |-> getEmptyWorkCategories,
   project_todos |-> <<>>,
   quality_score |-> 0,
   quality_score_explanation |-> JStr("", 0),
   parseSuccess |-> FALSE,
   errors |-> <<>>]

\* 1. summary: a non-null object that is not an array
takeSummary(result, s) ==
  IF Truthy(s) /\ s.t = "obj"
  THEN [result EXCEPT !.summary = s.v]
  ELSE [result EXCEPT !.errors = Append(@, Err("summary_invalid", "", 0))]

setWorkCategories(result, validated) ==
  [result EXCEPT !.work_categories = validated.result, !.errors = validated.errors]

\* 2. work_categories: any non-null object
takeWorkCategories(result, w) ==
  IF Truthy(w) /\ IsObjectType(w)
  THEN setWorkCategories(result, validateWorkCategories(w, result.errors))
  ELSE [result EXCEPT !.errors = Append(@, Err("work_categories_invalid", "", 0))]

setProjectTodos(result, validated) ==
  [result EXCEPT !.project_todos = validated.result, !.errors = validated.errors]

\* 3. project_todos: any non-null object
takeProjectTodos(result, p) ==
  IF Truthy(p) /\ IsObjectType(p)
  THEN setProjectTodos(result, validateProjectTodos(p, result.errors))
  ELSE [result EXCEPT !.errors = Append(@, Err("project_todos_invalid", "", 0))]

\* quality_score taken as emitted
takeQualityScoreWithoutClamp(result, q) ==
  IF q.t = "num"
  THEN [result EXCEPT !.quality_score = q.v]
  ELSE [result EXCEPT !.errors = Append(@, Err("quality_score_invalid", "", 0))]

\* 4. quality_score: a number, clamped to 0..1
takeQualityScore(result, q) ==
  IF q.t = "num"
  THEN [result EXCEPT !.quality_score = Max(0, Min(MaxQualityScore, q.v))]
  ELSE [result EXCEPT !.errors = Append(@, Err("quality_score_invalid", "", 0))]

\* variant: a record without a usable explanation loses its score as well
takeExplanationOrReset(result, x) ==
  IF Truthy(x) /\ x.t = "str"
  THEN [result EXCEPT !.quality_score_explanation = Substring(x, MaxExplanationLen)]
  ELSE [result EXCEPT !.quality_score = 0,
                      !.errors = Append(@, Err("explanation_invalid", "", 0))]

\* 5. quality_score_explanation: a non-empty string, cut to 300 characters
takeExplanation(result, x) ==
  IF Truthy(x) /\ x.t = "str"
  THEN [result EXCEPT !.quality_score_explanation = Substring(x, MaxExplanationLen)]
  ELSE [result EXCEPT !.errors = Append(@, Err("explanation_invalid", "", 0))]

\* variant: success is judged by the summary alone
judgeBySummary(result) ==
  [result EXCEPT !.parseSuccess = DOMAIN result.summary # {}]

\* 6. parseSuccess
judge(result) ==
  [result EXCEPT !.parseSuccess = (DOMAIN result.summary # {}) /\ result.errors = <<>>]

\* the body of the try block, for a decoded non-null value
parseDecoded(parsed) ==
  judge(
    takeExplanation(
      takeQualityScore(
        takeProjectTodos(
          takeWorkCategories(
            takeSummary(DefaultParsed, Get(parsed, "summary")),
            Get(parsed, "work_categories")),
          Get(parsed, "project_todos")),
        Get(parsed, "quality_score")),
      Get(parsed, "quality_score_explanation")))

\* what the caller of a function that threw is left with
Thrown == [thrown |-> TRUE]

\* the try block without its catch
parseOutcomeWithoutCatch(decoded) ==
  IF ~decoded.ok \/ decoded.value.t = "null"
  THEN Thrown
  ELSE parseDecoded(decoded.value)

\* a decoded null throws on the first property access
parseOutcome(decoded) ==
  IF ~decoded.ok \/ decoded.value.t = "null"
  THEN [DefaultParsed EXCEPT !.errors = <<Err("json_parse", "", 0)>>]
  ELSE parseDecoded(decoded.value)

parseSummaryJson(jsonText) ==
  parseOutcome(JSONparse(extractJsonFromResponse(jsonText)))

(***************************************************************************)
(* summary-parser.ts (markdown version, used by the teams route)           *)
(* text.md holds what the regexes of the parser match: the body of the     *)
(* daily-summary section (brackets removed, trimmed) and, per project      *)
(* heading, the checkbox lines with their optional metadata suffix.        *)
(***************************************************************************)
MaxDailySummaryLen == 500

extractDailySummary(markdownText) ==
  LET m == markdownText.md.daily IN
  IF Truthy(m) THEN Substring(m, MaxDailySummaryLen) ELSE JStr("", 0)

parseTaskMetadata(line) ==
  IF line.meta
  THEN [task |-> line.task, promptCount |-> line.promptCount,
        category |-> line.category, estimatedTime |-> line.estimatedTime]
  ELSE [task |-> line.task, promptCount |-> 1,
        category |-> "etc", estimatedTime |-> "undecided"]

parseTasksFromContent(lines) ==
  [i \in 1..Len(lines) |-> parseTaskMetadata(lines[i])]

RECURSIVE extractProjectTasks(_, _)
extractProjectTasks(projects, i) ==
  IF i > Len(projects) THEN <<>>
  ELSE LET tasks == parseTasksFromContent(projects[i].lines) IN
       (IF Len(tasks) > 0
        THEN <<[projectName |-> projects[i].name, tasks |-> tasks]>>
        ELSE <<>>) \o extractProjectTasks(projects, i + 1)

RECURSIVE CountTasks(_, _)
CountTasks(tasksByProject, i) ==
  IF i > Len(tasksByProject) THEN 0
  ELSE Len(tasksByProject[i].tasks) + CountTasks(tasksByProject, i + 1)

calculateCategoryCounts(tasksByProject) ==
  LET all == {<<i, j>> \in (1..Len(tasksByProject)) \X (1..4) :
                j <= Len(tasksByProject[i].tasks)}
      cats == {tasksByProject[ij[1]].tasks[ij[2]].category : ij \in all}
  IN [c \in cats |->
        Cardinality({ij \in all : tasksByProject[ij[1]].tasks[ij[2]].category = c})]

parseSummaryMarkdown(markdownText) ==
  LET dailySummary == extractDailySummary(markdownText)
      tasksByProject == extractProjectTasks(markdownText.md.projects, 1)
      totalTasks == CountTasks(tasksByProject, 1)
  IN [dailySummary |-> dailySummary,
      tasksByProject |-> tasksByProject,
      totalTasks |-> totalTasks,
      categoryCounts |-> calculateCategoryCounts(tasksByProject),
      parseSuccess |-> dailySummary.v[2] > 0 \/ totalTasks > 0,
      errors |-> <<>>]

(***************************************************************************)
(* summary-prompt.ts: extractProjectTexts                                  *)
(* A ProjectText is [projectName, userText]; userText is the sequence of   *)
(* the joined message bodies (join("\n\n") of no message is "").           *)
(***************************************************************************)
FindSession(sessions, id) ==
  IF \E i \in 1..Len(sessions) : sessions[i].id = id
  THEN LET i == CHOOSE j \in 1..Len(sessions) :
                  /\ sessions[j].id = id
                  /\ \A k \in 1..(j - 1) : sessions[k].id # id
       IN sessions[i].project_name
  ELSE ""

\* filter(type === "user").map(content).filter(typeof content === "string")
RECURSIVE userMessages(_, _)
userMessages(msgs, i) ==
  IF i > Len(msgs) THEN <<>>
  ELSE (IF msgs[i].type = "user" /\ msgs[i].content.t = "str"
        THEN <<msgs[i].content.v>> ELSE <<>>) \o userMessages(msgs, i + 1)

RECURSIVE groupContents(_, _, _, _)
\* groups is the projectGroups object as a sequence of [projectName, texts]
\* in insertion order
groupContents(sessions, contents, i, groups) ==
  IF i > Len(contents) THEN groups
  ELSE LET found == FindSession(sessions, contents[i].session_id)
           projectName == IF found # "" THEN found ELSE "unknown"
           msgs == userMessages(contents[i].messages, 1)
           known == \E g \in 1..Len(groups) : groups[g].projectName = projectName
           next == IF known
                   THEN [g \in 1..Len(groups) |->
                           IF groups[g].projectName = projectName
                           THEN [groups[g] EXCEPT !.userText = @ \o msgs]
                           ELSE groups[g]]
                   ELSE Append(groups, [projectName |-> projectName,
                                        userText |-> msgs])
       IN groupContents(sessions, contents, i + 1, next)

extractProjectTexts(sessions, contents) ==
  groupContents(sessions, contents, 1, <<>>)

(***************************************************************************)
(* Inputs of the model: what the generation service may answer, what the   *)
(* session store may hold for the day, what a caller may supply.           *)
(***************************************************************************)
Cat(minutes, percentage, description) ==
  JObj([minutes |-> JNum(minutes), percentage |-> JNum(percentage),
        description |-> description])

\* a well-formed answer in a ```json fence: percentages sum to 100
GoodJson ==
  Text("good", "json_fence",
       JObj([summary |-> JObj([p |-> JStr("p-summary", 120)]),
             work_categories |->
               JObj([backend |-> Cat(9000, 6000, JStr("api", 10)),
                     qa |-> Cat(6000, 4000, JNull)]),
             project_todos |->
               JObj([p |-> JObj([project_id |-> JNull,
                                 project_name |-> JStr("p", 1),
                                 todos |-> JArr(<<JObj([text |-> JStr("todo", 4),
                                                        category |-> JStr("backend", 7)])>>)])]),
             quality_score |-> JNum(85),
             quality_score_explanation |-> JStr("why", 40)]),
       NoMarkdown)

\* a decodable answer with recoverable defects: percentages sum to 60,
\* one todo without text, a 0-100 quality score
WarnJson ==
  Text("warn", "none",
       JObj([summary |-> JObj([p |-> JStr("p-summary", 120)]),
             work_categories |-> JObj([backend |-> Cat(9000, 6000, JNull)]),
             project_todos |->
               JObj([p |-> JObj([project_name |-> JStr("p", 1),
                                 todos |-> JArr(<<JObj([category |-> JStr("qa", 2)])>>)])]),
             quality_score |-> JNum(8800),
             quality_score_explanation |-> JStr("why", 40)]),
       NoMarkdown)

\* an answer in the markdown checklist format (not JSON)
MarkdownText ==
  Text("markdown", "none", Garbage,
       [daily |-> JStr("daily", 620),
        projects |-> <<[name |-> "p",
                        lines |-> <<[task |-> "t1", meta |-> TRUE, promptCount |-> 3,
                                     category |-> "feature", estimatedTime |-> "30m"],
                                    [task |-> "t2", meta |-> FALSE, promptCount |-> 0,
                                     category |-> "", estimatedTime |-> ""]>>]>>])

\* prose that is neither JSON nor the markdown format
JunkText == Text("junk", "none", Garbage, NoMarkdown)

\* what generateWithClaude may return: the guest route prompts for JSON, the
\* teams route for the markdown checklist
TextsOf(kind) ==
  IF kind = "guest" THEN {GoodJson, WarnJson, JunkText}
  ELSE {MarkdownText, JunkText}

\* the fixed "no activity this day" summary
NoActivityText == Text("no_activity", "none", Garbage, NoMarkdown)

\* The parsers are pure: what they return for each of the answers.
Answers == TextsOf("guest") \cup TextsOf("teams")
parsedJson == [text \in Answers |-> parseSummaryJson(text)]
parsedMarkdown == [text \in Answers |-> parseSummaryMarkdown(text)]

Message(type, content) == [type |-> type, content |-> content]

\* sessions rows carry working_directory (guest route), the session_summary
\* view carries project_name (teams route)
Session1 == [id |-> "s1", project_name |-> "p",
             working_directory |-> <<"home", "p">>]

\* no uploaded file and no session for the day
DayEmpty == [files |-> 0, sessions |-> <<>>, contents |-> <<>>]
\* a session without stored content
DayNoContent == [files |-> 1, sessions |-> <<Session1>>, contents |-> <<>>]
OtherMessages ==
  <<Message("assistant", JStr("a1", 50)),
    Message("user", JArr(<<JObj([type |-> JStr("tool_result", 11)])>>))>>
\* a session whose messages are assistant messages and structured content
DayNoUserText ==
  [files |-> 1, sessions |-> <<Session1>>,
   contents |-> <<[session_id |-> "s1", messages |-> OtherMessages],
                  [session_id |-> "s9", messages |-> OtherMessages]>>]
\* a session with user-authored text, and content of a session not listed
DayWithText ==
  [files |-> 1, sessions |-> <<Session1>>,
   contents |-> <<[session_id |-> "s1",
                   messages |-> OtherMessages
                                \o <<Message("user", JStr("m1", 30)),
                                     Message("user", JStr("m2", 20))>>],
                  [session_id |-> "s9",
                   messages |-> <<Message("user", JStr("m3", 10))>>]>>]

\* an uploaded file without sessions
DayFilesOnly == [files |-> 1, sessions |-> <<>>, contents |-> <<>>]

DayData == {DayEmpty, DayFilesOnly, DayNoContent, DayNoUserText, DayWithText}

\* the projectTexts field of a request body: absent, [] or a list
Absent == [given |-> FALSE, list |-> <<>>]
Given(list) == [given |-> TRUE, list |-> list]
SuppliedTexts ==
  {Absent, Given(<<>>),
   Given(<<[projectName |-> "preview", userText |-> <<<<"typed", 25>>>>],
           [projectName |-> "draft", userText |-> <<>>]>>)}

(***************************************************************************)
(* State                                                                   *)
(* Requests for different (subject, date) keys touch disjoint rows and     *)
(* disjoint session data, so a behaviour follows the requests of one key:  *)
(* the guest's or the registered user's, for the one date.                 *)
(***************************************************************************)
NumRequests == 2
\* how many requests the server handles at the same time
MaxInFlight == 2

Requests == 1..NumRequests

Routes == {"guest", "teams"}

SubjectOf(kind) == IF kind = "guest" THEN "g1" ELSE "u1"
TheDate == "2025-01-15"
NullId == "null"

VARIABLES
  route,    \* which handler the requests of the behaviour go to
  store,    \* the rows of the daily_ai_summaries table
  now,      \* the table's clock: created_at of the next inserted row
  req,      \* per request: its body, its position in the handler, its locals,
            \* and what it has done so far (calls made, what it found on arrival)
  range,    \* the range handler: the server's time zone, the request, the
            \* per-date calls in flight
  parser,   \* parseSummaryJson: the text handed to it and what it returned
  prompt    \* generateSummaryPrompt: its arguments and the prompt it returned

handlerVars == <<route, store, now, req>>
vars == <<route, store, now, req, range, parser, prompt>>

\* the server's time zone (process environment of the range handler)
zone == range.zone
\* the generate-summary-range request: its body, position, locals
batch == range.batch
\* positions of datesToGenerate whose per-date call is in flight
calls == range.calls
\* the text handed to parseSummaryJson
jsonText == parser.jsonText
\* what parseSummaryJson returned for it
parsed == parser.parsed

NoResponse == [status |-> 0]

IdleRequest ==
  [pc |-> "idle", force |-> FALSE, projectData |-> <<>>, summary |-> NoActivityText,
   resp |-> NoResponse,
   nGenerate |-> 0, nReads |-> 0, nSessionReads |-> 0, nDeletes |-> 0,
   nInserts |-> 0, stored |-> FALSE, missed |-> FALSE,
   emptyDay |-> FALSE, generateThrew |-> FALSE,
   doneAtArrival |-> {}, rowsAtArrival |-> {}]

\* offsets in hours east of UTC before and from the instant `change` (hours
\* since 00:00 UTC of day 0)
ZoneUTC == [before |-> 0, after |-> 0, change |-> 0]

IdleBatch ==
  [pc |-> "idle", force |-> FALSE, startDate |-> 0, endDate |-> 0,
   cachedAtStart |-> {}, stored |-> {}, queryOk |-> TRUE,
   dates |-> <<>>, existingDates |-> {}, datesToGenerate |-> <<>>, next |-> 1,
   generatedDates |-> <<>>, skippedDates |-> <<>>,
   lastOutcome |-> "none", lastDate |-> 0,
   resp |-> NoResponse]

HandlerInit ==
  /\ store = {}
  /\ now = 1
  /\ req = [r \in Requests |-> IdleRequest]

RangeIdle(z) == [zone |-> z, batch |-> IdleBatch, calls |-> {}]

\* parseSummaryJson has not been called
NotCalled == [called |-> FALSE]

\* Each specification follows one component and leaves the variables of the
\* other components at this value.
Unused == <<>>

HandlerUnused ==
  /\ route = Unused
  /\ store = Unused
  /\ now = Unused
  /\ req = Unused

RangeUnused == range = Unused

ParserUnused == parser = Unused

PromptUnused == prompt = Unused

Init ==
  /\ route \in Routes
  /\ HandlerInit
  /\ RangeUnused
  /\ ParserUnused
  /\ PromptUnused

\* .eq(<subject column>, userId).eq('date', date)
RowsOf(rows, kind) ==
  IF kind = "guest"
  THEN {row \in rows : row.guest_user_id = SubjectOf(kind) /\ row.date = TheDate}
  ELSE {row \in rows : row.user_id = SubjectOf(kind) /\ row.date = TheDate}

\* reply.send / reply.status(..).send: the handler returns and its locals
\* (projectData, summary) are gone; what it did stays on record
Done(rq, resp) ==
  [rq EXCEPT !.pc = "done", !.resp = resp,
             !.projectData = <<>>, !.summary = NoActivityText]

ErrorResponse(status) == [status |-> status, success |-> FALSE]

NoActivityResponse ==
  [status |-> 200, success |-> TRUE, shape |-> "no_activity",
   summary |-> NoActivityText, cached |-> FALSE]

(***************************************************************************)
(* JSON.stringify / JSON.parse of values that came out of JSON.parse or    *)
(* were built by the parser; a string is the text of exactly one value.    *)
(***************************************************************************)
JSONstringify(value) == [json |-> value]

JSONparseString(str) == str.json

serializeParsedData(data) == JSONstringify(data)

(***************************************************************************)
(* CHECK_CACHE (skipped with forceRegenerate)                              *)
(***************************************************************************)
\* .order('created_at', { ascending: false }).limit(1)
LatestRow(rows) ==
  CHOOSE row \in rows : \A other \in rows : other.created_at <= row.created_at

\* `data` of the select, as [found, row]; a failed select has no data
SelectExisting(kind, ok) ==
  LET rows == RowsOf(store, kind) IN
  IF kind = "guest"
  THEN \* .maybeSingle() after limit(1)
       IF ok /\ rows # {} THEN [found |-> TRUE, row |-> LatestRow(rows)]
       ELSE [found |-> FALSE, row |-> JNull]
  ELSE \* .single(): exactly one row, or an error and no data
       IF ok /\ Cardinality(rows) = 1
       THEN [found |-> TRUE, row |-> CHOOSE row \in rows : TRUE]
       ELSE [found |-> FALSE, row |-> JNull]

GuestHitResponse(row) ==
  [status |-> 200, success |-> TRUE, shape |-> "hit",
   summary |-> row.summary_text,
   cached |-> TRUE,
   created_at |-> row.created_at,
   parsed_data |-> row.parsed_data,
   daily_summary |-> JSONparseString(row.daily_summary),
   work_categories |-> row.work_categories,
   project_todos |-> row.project_todos,
   quality_score |-> row.quality_score,
   quality_score_explanation |-> row.quality_score_explanation,
   parse_errors |-> <<>>]

TeamsHit(row, parsedData) ==
  [status |-> 200, success |-> TRUE, shape |-> "hit",
   summary |-> row.summary_text,
   cached |-> TRUE,
   created_at |-> row.created_at,
   parsed_data |-> parsedData,
   daily_summary |-> parsedData.dailySummary,
   tasks_count |-> parsedData.totalTasks,
   category_breakdown |-> parsedData.categoryCounts,
   parse_errors |-> parsedData.errors]

\* the stored text is parsed again on a hit
TeamsHitResponse(row) == TeamsHit(row, parsedMarkdown[row.summary_text])

HitResponse(kind, row) ==
  IF kind = "guest" THEN GuestHitResponse(row) ELSE TeamsHitResponse(row)

(***************************************************************************)
(* EXTRACT                                                                 *)
(***************************************************************************)
\* working_directory.split('/').pop(), 'Unknown Project' without a directory
sessionsWithProject(sessions) ==
  [i \in 1..Len(sessions) |->
     [sessions[i] EXCEPT !.project_name =
        IF Len(sessions[i].working_directory) > 0
        THEN sessions[i].working_directory[Len(sessions[i].working_directory)]
        ELSE "Unknown Project"]]

\* extractProjectTexts is pure: what it returns for the day's data, with the
\* sessions as each route passes them
extracted ==
  [kind \in Routes |->
     [d \in DayData |->
        IF kind = "guest"
        THEN extractProjectTexts(sessionsWithProject(d.sessions), d.contents)
        ELSE extractProjectTexts(d.sessions, d.contents)]]

\* the session-store reads of a handler; a failed query yields no data
ExtractFromStore(kind, d, ok) ==
  IF kind = "guest"
  THEN IF ~ok \/ d.files = 0 \/ Len(d.sessions) = 0 THEN <<>>
       ELSE extracted[kind][d]
  ELSE IF ~ok \/ Len(d.sessions) = 0 THEN <<>>
       ELSE extracted[kind][d]

\* the request with what the extraction did on record
Extracted(rq, projectData, fromStore, zeroSessions) ==
  [rq EXCEPT !.projectData = projectData,
             !.nSessionReads = IF fromStore THEN 1 ELSE 0,
             !.emptyDay = fromStore /\ zeroSessions]

\* generateWithClaude(generateSummaryPrompt(date, projectData)) is called
CallGenerate(rq) == [rq EXCEPT !.pc = "generating", !.nGenerate = 1]

\* if (projectData.length === 0) the fixed answer, else on to the generation
EmptyCheck(rq) ==
  IF Len(rq.projectData) = 0 THEN Done(rq, NoActivityResponse)
  ELSE CallGenerate(rq)

\* variant: the extraction result is not tested for emptiness, every request
\* that gets this far calls generateWithClaude
ExtractWithoutEmptyCheck(rq, day, ok) ==
  IF Len(rq.projectData) = 0
  THEN CallGenerate(Extracted(rq, ExtractFromStore(route, day, ok), TRUE,
                              Len(day.sessions) = 0))
  ELSE CallGenerate(Extracted(rq, rq.projectData, FALSE, FALSE))

\* From the extraction to the call of generateWithClaude (the prompt is
\* built without a further await).  rq.projectData holds projectTexts || [],
\* and the store is read if (!projectTexts || projectTexts.length === 0).
Extract(rq, day, ok) ==
  IF Len(rq.projectData) = 0
  THEN EmptyCheck(Extracted(rq, ExtractFromStore(route, day, ok), TRUE,
                            Len(day.sessions) = 0))
  ELSE EmptyCheck(Extracted(rq, rq.projectData, FALSE, FALSE))

(***************************************************************************)
(* A request arrives and runs up to its first answer or to the call of     *)
(* generateWithClaude: the body is parsed, the subject is looked up        *)
(* (guest_users on the guest route, profiles on the teams route), the      *)
(* cache is read unless forceRegenerate is set, and on a miss the project  *)
(* texts are extracted.  The reads in between touch nothing a concurrent   *)
(* request writes except the cache rows, which are read once.              *)
(*   ok:      the cache read succeeds                                      *)
(*   day:     what the session store holds for the subject and the date    *)
(*   dayOk:   the session-store queries succeed                            *)
(***************************************************************************)
\* requests are numbered in the order of their arrival
CanArrive(r) ==
  /\ req[r].pc = "idle"
  /\ \A q \in Requests : q < r => req[q].pc # "idle"
  /\ Cardinality({q \in Requests : req[q].pc \notin {"idle", "done"}}) < MaxInFlight

\* what the request finds on arrival
Arrived(r) ==
  [req[r] EXCEPT
     !.doneAtArrival = {q \in Requests : req[q].pc = "done"},
     !.rowsAtArrival = {row.created_at : row \in RowsOf(store, route)}]

\* the subject lookup fails: unknown guest (404), not in the same team (403)
Reject(r) ==
  /\ CanArrive(r)
  /\ req' = [req EXCEPT ![r] =
               Done(Arrived(r), ErrorResponse(IF route = "guest" THEN 404 ELSE 403))]
  /\ UNCHANGED <<route, store, now>>

\* variant: the projectTexts of the body are not read
BodyWithoutTexts(r, force, projectTexts) ==
  [Arrived(r) EXCEPT !.force = force]

\* let projectData = projectTexts || []
Body(r, force, projectTexts) ==
  [Arrived(r) EXCEPT !.force = force, !.projectData = projectTexts.list]

\* the cache read on record; missed: rows are stored for the key and the
\* read returned none
CacheRead(rq, existingSummary) ==
  [rq EXCEPT !.nReads = 1,
             !.missed = ~existingSummary.found /\ RowsOf(store, route) # {}]

\* if (existingSummary) the cached answer, else on to the extraction
AfterCacheRead(rq, existingSummary, day, dayOk) ==
  IF existingSummary.found
  THEN Done(rq, HitResponse(route, existingSummary.row))
  ELSE Extract(rq, day, dayOk)

CheckCache(rq, existingSummary, day, dayOk) ==
  AfterCacheRead(CacheRead(rq, existingSummary), existingSummary, day, dayOk)

\* variant: the cache is read whether or not forceRegenerate is set
ArriveReadingCache(r, force, projectTexts, ok, day, dayOk) ==
  /\ CanArrive(r)
  /\ req' = [req EXCEPT ![r] =
               CheckCache(Body(r, force, projectTexts), SelectExisting(route, ok),
                          day, dayOk)]
  /\ UNCHANGED <<route, now, store>>

Arrive(r, force, projectTexts, ok, day, dayOk) ==
  /\ CanArrive(r)
  /\ req' = [req EXCEPT ![r] =
               IF force
               THEN Extract(Body(r, force, projectTexts), day, dayOk)
               ELSE CheckCache(Body(r, force, projectTexts),
                               SelectExisting(route, ok), day, dayOk)]
  /\ UNCHANGED <<route, store, now>>

(***************************************************************************)
(* GENERATE: generateWithClaude returns the model's text or throws (no API *)
(* key, transport failure, empty content); the catch block answers 500.    *)
(***************************************************************************)
\* variant: the old rows are deleted before generateWithClaude is called
GenerateThrowAfterDelete(r) ==
  /\ req[r].pc = "generating"
  /\ store' = store \ RowsOf(store, route)
  /\ req' = [req EXCEPT ![r] =
               Done([req[r] EXCEPT !.generateThrew = TRUE, !.nDeletes = 1],
                    ErrorResponse(500))]
  /\ UNCHANGED <<route, now>>

GenerateThrow(r) ==
  /\ req[r].pc = "generating"
  /\ req' = [req EXCEPT ![r] =
               Done([req[r] EXCEPT !.generateThrew = TRUE], ErrorResponse(500))]
  /\ UNCHANGED <<route, store, now>>

(***************************************************************************)
(* STORE                                                                   *)
(***************************************************************************)
\* The columns project_texts and force_regenerated are written by both
\* handlers and read by none; the rows of the model leave them out.
\* variant: the guest's id is written to both subject columns
GuestInsertBothSubjects(summary, parsedData, createdAt) ==
  [created_at |-> createdAt,
   guest_user_id |-> SubjectOf("guest"),
   user_id |-> SubjectOf("guest"),
   date |-> TheDate,
   summary_text |-> summary,
   parsed_data |-> JSONparseString(serializeParsedData(parsedData)),
   daily_summary |-> JSONstringify(parsedData.summary),
   work_categories |-> parsedData.work_categories,
   project_todos |-> parsedData.project_todos,
   quality_score |-> parsedData.quality_score,
   quality_score_explanation |-> parsedData.quality_score_explanation]

\* .insert({guest_user_id: userId, user_id: null, ...})
GuestInsert(summary, parsedData, createdAt) ==
  [created_at |-> createdAt,
   guest_user_id |-> SubjectOf("guest"),
   user_id |-> NullId,
   date |-> TheDate,
   summary_text |-> summary,
   parsed_data |-> JSONparseString(serializeParsedData(parsedData)),
   daily_summary |-> JSONstringify(parsedData.summary),
   work_categories |-> parsedData.work_categories,
   project_todos |-> parsedData.project_todos,
   quality_score |-> parsedData.quality_score,
   quality_score_explanation |-> parsedData.quality_score_explanation]

GuestRow(rq, createdAt) ==
  GuestInsert(rq.summary, parsedJson[rq.summary], createdAt)

\* .upsert({user_id: userId, ...}): guest_user_id is not named and takes the
\* column's default, null
TeamsUpsert(summary, parsedData, createdAt) ==
  [created_at |-> createdAt,
   guest_user_id |-> NullId,
   user_id |-> SubjectOf("teams"),
   date |-> TheDate,
   summary_text |-> summary,
   parsed_data |-> JSONparseString(serializeParsedData(parsedData)),
   daily_summary |-> parsedData.dailySummary]

TeamsRow(rq, createdAt) ==
  TeamsUpsert(rq.summary, parsedMarkdown[rq.summary], createdAt)

NewRow(kind, rq, createdAt) ==
  IF kind = "guest" THEN GuestRow(rq, createdAt) ELSE TeamsRow(rq, createdAt)

GuestGenerated(rq, parsedData) ==
  [status |-> 200, success |-> TRUE, shape |-> "generated",
   summary |-> rq.summary,
   cached |-> FALSE,
   project_count |-> Len(rq.projectData),
   parsed_data |-> parsedData,
   daily_summary |-> parsedData.summary,
   work_categories |-> parsedData.work_categories,
   project_todos |-> parsedData.project_todos,
   quality_score |-> parsedData.quality_score,
   quality_score_explanation |-> parsedData.quality_score_explanation,
   parse_errors |-> parsedData.errors]

GuestResponse(rq) == GuestGenerated(rq, parsedJson[rq.summary])

TeamsGenerated(rq, parsedData) ==
  [status |-> 200, success |-> TRUE, shape |-> "generated",
   summary |-> rq.summary,
   cached |-> FALSE,
   project_count |-> Len(rq.projectData),
   parsed_data |-> parsedData,
   daily_summary |-> parsedData.dailySummary,
   tasks_count |-> parsedData.totalTasks,
   category_breakdown |-> parsedData.categoryCounts,
   parse_errors |-> parsedData.errors]

TeamsResponse(rq) == TeamsGenerated(rq, parsedMarkdown[rq.summary])

GeneratedResponse(kind, rq) ==
  IF kind = "guest" THEN GuestResponse(rq) ELSE TeamsResponse(rq)

\* variant: a store that acknowledges the insert and keeps nothing
SaveNothing(rows, kind, rq, ok) == rows

\* the row is inserted (ok) or the store reports a saveError
Save(rows, kind, rq, ok) ==
  IF ok THEN rows \cup {NewRow(kind, rq, now)} ELSE rows

\* guest route: .delete().eq('guest_user_id', userId).eq('date', date);
\* a deleteError is logged and the handler continues
DeleteOld(rows, kind, ok) ==
  IF ok THEN rows \ RowsOf(rows, kind) ELSE rows

\* generateWithClaude resolves with the model's text; the handler parses it
\* and goes on to its first store call: the delete of the old rows on the
\* guest route, the upsert on the teams route (a row without a primary key
\* value, so it inserts), after which the teams handler answers.
GenerateReturn(r, text, ok) ==
  /\ req[r].pc = "generating"
  /\ LET got == [req[r] EXCEPT !.summary = text] IN
     IF route = "guest"
     THEN /\ store' = DeleteOld(store, route, ok)
          /\ now' = now
          /\ req' = [req EXCEPT ![r] = [got EXCEPT !.pc = "insert", !.nDeletes = 1]]
     ELSE /\ store' = Save(store, route, got, ok)
          /\ now' = IF ok THEN now + 1 ELSE now
          /\ req' = [req EXCEPT ![r] =
                       Done([got EXCEPT !.nInserts = 1, !.stored = ok],
                            GeneratedResponse(route, got))]
  /\ UNCHANGED route

\* variant: a saveError is answered with 500
InsertNewOrFail(r, ok) ==
  /\ req[r].pc = "insert"
  /\ store' = Save(store, route, req[r], ok)
  /\ now' = IF ok THEN now + 1 ELSE now
  /\ req' = [req EXCEPT ![r] =
               Done([req[r] EXCEPT !.nInserts = 1, !.stored = ok],
                    IF ok THEN GeneratedResponse(route, req[r])
                    ELSE ErrorResponse(500))]
  /\ UNCHANGED route

\* guest route: .insert(row).  A saveError is logged and the handler answers
\* with the generated summary all the same.
InsertNew(r, ok) ==
  /\ req[r].pc = "insert"
  /\ store' = Save(store, route, req[r], ok)
  /\ now' = IF ok THEN now + 1 ELSE now
  /\ req' = [req EXCEPT ![r] =
               Done([req[r] EXCEPT !.nInserts = 1, !.stored = ok],
                    GeneratedResponse(route, req[r]))]
  /\ UNCHANGED route

Next ==
  \/ \E r \in Requests : Reject(r) /\ UNCHANGED <<range, parser, prompt>>
  \/ \E r \in Requests :
       /\ CanArrive(r)
       /\ \E force \in BOOLEAN, projectTexts \in SuppliedTexts :
            \E ok \in (IF force THEN {TRUE} ELSE BOOLEAN),
               day \in (IF Len(projectTexts.list) > 0 THEN {DayEmpty} ELSE DayData) :
              \E dayOk \in (IF Len(projectTexts.list) > 0 THEN {TRUE} ELSE BOOLEAN) :
                Arrive(r, force, projectTexts, ok, day, dayOk)
                /\ UNCHANGED <<range, parser, prompt>>
  \/ \E r \in Requests, text \in TextsOf(route), ok \in BOOLEAN :
       GenerateReturn(r, text, ok) /\ UNCHANGED <<range, parser, prompt>>
  \/ \E r \in Requests : GenerateThrow(r) /\ UNCHANGED <<range, parser, prompt>>
  \/ \E r \in Requests, ok \in BOOLEAN : InsertNew(r, ok) /\ UNCHANGED <<range, parser, prompt>>

Spec == Init /\ [][Next]_vars

\* The handlers under the event loop's scheduling: a handler waiting for the
\* table's answer to its write goes on when the answer comes, and the table
\* answers.  The generation call's promise settles only when the upstream
\* service answers or the connection fails (generateWithClaude passes no
\* timeout and no abort signal, and the handlers set no timer), so nothing is
\* assumed about GenerateReturn and GenerateThrow.
LiveSpec ==
  /\ Init
  /\ [][Next]_vars
  /\ WF_vars(\E r \in Requests, ok \in BOOLEAN :
               InsertNew(r, ok) /\ UNCHANGED <<range, parser, prompt>>)

TypeOK ==
  /\ \A r \in Requests :
       req[r].pc \in {"idle", "generating", "insert", "done"}
  /\ now \in 1..(NumRequests + 1)

(***************************************************************************)
(* Range handler: POST /daily-scrums/generate-summary-range                *)
(* A date "YYYY-MM-DD" is a day number, an instant (a JavaScript Date) is  *)
(* a number of hours since 00:00 UTC of day 0.  A behaviour follows one    *)
(* range request of one user.                                              *)
(***************************************************************************)
\* the last day a request can name
MaxDay == 6
\* how many days have a stored summary when the request arrives
MaxCached == 1

Days == 0..MaxDay
HoursPerDay == 24

\* America/New_York: daylight saving time starts at 02:00 local time of day 1
ZoneNewYorkMarch ==
  [before |-> -5, after |-> -4, change |-> HoursPerDay + 7]
\* America/New_York: daylight saving time ends at 02:00 local time of day 1
ZoneNewYorkNovember ==
  [before |-> -4, after |-> -5, change |-> HoursPerDay + 6]
Zones == {ZoneUTC, ZoneNewYorkMarch, ZoneNewYorkNovember}

\* new Date("YYYY-MM-DD"): 00:00 UTC of the day
NewDate(day) == day * HoursPerDay

\* local time minus UTC at the instant t
getTimezoneOffset(z, t) == IF t < z.change THEN z.before ELSE z.after

\* the instant at which the zone's clocks show the local time w
fromLocal(z, w) ==
  IF w - z.before < z.change THEN w - z.before ELSE w - z.after

\* d.setDate(d.getDate() + 1): the same local time of day, one local day on
setDate(z, t) == fromLocal(z, t + getTimezoneOffset(z, t) + HoursPerDay)

\* d.toISOString().split("T")[0]: the UTC day of the instant
toISODate(t) == t \div HoursPerDay

\* for (const d = new Date(start); d <= end; d.setDate(d.getDate() + 1))
RECURSIVE datesFrom(_, _, _)
datesFrom(z, d, end) ==
  IF d <= end THEN <<toISODate(d)>> \o datesFrom(z, setDate(z, d), end)
  ELSE <<>>

dates(z, startDate, endDate) ==
  datesFrom(z, NewDate(startDate), NewDate(endDate))

SeqToSet(s) == {s[i] : i \in DOMAIN s}

\* .select("date").eq("user_id", userId).in("date", dates), then
\* new Set((existingSummaries || []).map(s => s.date)); data is null when
\* the query fails
existingDates(cached, ds, ok) == IF ok THEN cached \cap SeqToSet(ds) ELSE {}

datesToGenerate(force, ds, existing) ==
  IF force THEN ds ELSE SelectSeq(ds, LAMBDA d : d \notin existing)

\* Array.from(existingDates); the rows come back in the table's order, taken
\* here as ascending
RECURSIVE ArrayFrom(_)
ArrayFrom(set) ==
  IF set = {} THEN <<>>
  ELSE LET least == CHOOSE d \in set : \A e \in set : d <= e
       IN <<least>> \o ArrayFrom(set \ {least})

CachedSets == {c \in SUBSET Days : Cardinality(c) <= MaxCached}

\* what one per-date fetch can come to: a 2xx response, another response, or
\* a rejected promise
Outcomes == {"ok", "not_ok", "throw"}

Planned(b, ds, existing) ==
  [b EXCEPT !.dates = ds, !.existingDates = existing,
            !.datesToGenerate = datesToGenerate(b.force, ds, existing),
            !.pc = "loop"]

\* the target user is not the caller and not in the caller's team
RangeReject ==
  /\ batch.pc = "idle"
  /\ range' = [range EXCEPT !.batch.pc = "done",
                            !.batch.resp = [status |-> 403, success |-> FALSE]]

\* from the body to the list of dates to generate
RangeArrive(startDate, endDate, force, cached, ok) ==
  /\ batch.pc = "idle"
  /\ range' = [range EXCEPT !.batch =
       Planned([batch EXCEPT !.startDate = startDate,
                             !.endDate = endDate, !.force = force,
                             !.cachedAtStart = cached, !.stored = cached,
                             !.queryOk = ok],
               dates(zone, startDate, endDate),
               existingDates(cached, dates(zone, startDate, endDate), ok))]

\* What the teams handler did to the table before it answered: an answer
\* with a 2xx status comes with a record of the date stored (the cached
\* record, or the generated one when the upsert succeeded) or with none (the
\* fixed "no activity" answer, or the generated summary after a saveError);
\* any other answer comes after no write.
Saves(outcome) == IF outcome = "ok" THEN BOOLEAN ELSE {FALSE}

\* the days that have a record in daily_ai_summaries after the call
Upserted(b, date, saved) ==
  [b EXCEPT !.stored = IF saved THEN @ \cup {date} ELSE @]

\* if (response.ok) generatedDates.push(date) else skippedDates.push(date);
\* catch: skippedDates.push(date)
Settled(b, date, outcome) ==
  IF outcome = "ok"
  THEN [b EXCEPT !.generatedDates = Append(@, date), !.pc = "loop",
                 !.lastOutcome = outcome, !.lastDate = date]
  ELSE [b EXCEPT !.skippedDates = Append(@, date), !.pc = "loop",
                 !.lastOutcome = outcome, !.lastDate = date]

\* the loop issuing every fetch without awaiting the one before
StartCallWithoutAwait(outcome, saved) ==
  /\ batch.pc = "loop"
  /\ batch.next <= Len(batch.datesToGenerate)
  /\ IF outcome = "pending"
     THEN range' = [range EXCEPT !.batch.next = @ + 1,
                                 !.calls = @ \cup {batch.next}]
     ELSE range' = [range EXCEPT !.batch =
            Settled(Upserted([batch EXCEPT !.next = @ + 1],
                             batch.datesToGenerate[batch.next], saved),
                    batch.datesToGenerate[batch.next], outcome)]

\* the loop takes the next date and issues its fetch.  The call is answered
\* at once (stored summary, no activity, refusal, no connection) or the
\* teams handler reaches its generation call ("pending") and the loop waits.
StartCall(outcome, saved) ==
  /\ batch.pc = "loop"
  /\ batch.next <= Len(batch.datesToGenerate)
  /\ IF outcome = "pending"
     THEN range' = [range EXCEPT !.batch.pc = "awaiting",
                                 !.batch.next = @ + 1,
                                 !.calls = @ \cup {batch.next}]
     ELSE range' = [range EXCEPT !.batch =
            Settled(Upserted([batch EXCEPT !.next = @ + 1],
                             batch.datesToGenerate[batch.next], saved),
                    batch.datesToGenerate[batch.next], outcome)]

\* the awaited fetch settles
FinishCall(i, outcome, saved) ==
  /\ i \in calls
  /\ range' = [range EXCEPT
       !.batch = Settled(Upserted(batch, batch.datesToGenerate[i], saved),
                         batch.datesToGenerate[i], outcome),
       !.calls = @ \ {i}]

\* reply.send({success: true, data: {...}})
RangeResponse(b) ==
  [status |-> 200, success |-> TRUE,
   generated_dates |-> b.generatedDates,
   skipped_dates |-> IF b.force THEN b.skippedDates
                     ELSE b.skippedDates \o ArrayFrom(b.existingDates),
   total_generated |-> Len(b.generatedDates)]

Respond ==
  /\ batch.pc = "loop"
  /\ batch.next > Len(batch.datesToGenerate)
  /\ calls = {}
  /\ range' = [range EXCEPT !.batch.pc = "done",
                            !.batch.resp = RangeResponse(batch)]

RangeInit ==
  /\ HandlerUnused
  /\ range \in {RangeIdle(z) : z \in Zones}
  /\ ParserUnused
  /\ PromptUnused

RangeNext ==
  \/ RangeReject /\ UNCHANGED <<handlerVars, parser, prompt>>
  \/ /\ batch.pc = "idle"
     /\ \E startDate \in Days, endDate \in Days, force \in BOOLEAN :
          \E cached \in CachedSets, ok \in BOOLEAN :
            RangeArrive(startDate, endDate, force, cached, ok)
            /\ UNCHANGED <<handlerVars, parser, prompt>>
  \/ \E outcome \in Outcomes \cup {"pending"} :
       \E saved \in Saves(outcome) :
         StartCall(outcome, saved) /\ UNCHANGED <<handlerVars, parser, prompt>>
  \/ \E i \in calls, outcome \in Outcomes :
       \E saved \in Saves(outcome) :
         FinishCall(i, outcome, saved) /\ UNCHANGED <<handlerVars, parser, prompt>>
  \/ Respond /\ UNCHANGED <<handlerVars, parser, prompt>>

RangeSpec == RangeInit /\ [][RangeNext]_vars

RangeTypeOK ==
  /\ batch.pc \in {"idle", "loop", "awaiting", "done"}
  /\ calls \subseteq 1..Len(batch.datesToGenerate)

(***************************************************************************)
(* parseSummaryJson on its own: the text is any of a family of answers,    *)
(* decodable or not, with each of the five fields well-formed, missing,    *)
(* of the wrong type or out of range.                                      *)
(***************************************************************************)
\* the longest string an answer carries
MaxTextLen == 620

GoodTodos == JArr(<<JObj([text |-> JStr("todo", 4), category |-> JStr("qa", 2)])>>)

GoodProject ==
  JObj([project_id |-> JNull, project_name |-> JStr("name", 4), todos |-> GoodTodos])

\* "summary": missing, prose, an array, {}, a map of strings (short, long),
\* a map with a number
Summaries ==
  {JUndef, JStr("prose", 50), JArr(<<JStr("prose", 50)>>), EmptyObj,
   JObj([p |-> JStr("p-summary", 120)]),
   JObj([p |-> JStr("p-summary", MaxTextLen)]),
   JObj([p |-> JNum(4200)])}

CategoryIndex(c) == CHOOSE i \in 1..Len(validCategories) : validCategories[i] = c

\* seven categories whose percentages (each at most 100) add up to `total`
WorkCategoriesSumming(total) ==
  JObj([c \in CategoryNames |->
          Cat(3000,
              Max(0, Min(MaxPercentage, total - (CategoryIndex(c) - 1) * MaxPercentage)),
              JNull)])

\* every whole number of percent from 0 to 700, and sums next to the tolerance
Totals ==
  {n * PercentageTolerance : n \in 0..(Len(validCategories) * 100)}
    \cup {9899, 9950, 10050, 10101}

\* "work_categories": missing, a string, an array, categories out of range
\* or of the wrong type, seven categories summing to 100
WorkCategoriesValues ==
  {JUndef, JStr("backend", 7), JArr(<<>>),
   JObj([backend |-> Cat(-500, 15000, JNum(7)),
         qa |-> JStr("half", 4),
         planning |-> JObj([minutes |-> JStr("90", 2), percentage |-> JNull]),
         extra |-> Cat(100, 100, JNull)]),
   WorkCategoriesSumming(PercentageTarget)}

\* the value under one key of "project_todos"
ProjectEntries ==
  {GoodProject,
   JArr(<<JStr("a", 1), JStr("b", 1)>>),
   JStr("todo", 4),
   JNum(300),
   JNull,
   JObj([project_name |-> JStr("name", 4)]),
   JObj([project_name |-> JStr("name", 4), todos |-> JStr("todo", 4)]),
   JObj([todos |-> JArr(<<JObj([text |-> JNum(700), category |-> JStr("chores", 6)]),
                          JStr("todo", 4)>>)])}

\* "project_todos": missing, a string, {}, an array, the entry alone, the
\* entry before a well-formed one
ProjectTodosValues ==
  {JUndef, JStr("todo", 4), EmptyObj, JArr(<<GoodProject>>)}
    \cup {JObj([p |-> e]) : e \in ProjectEntries}
    \cup {JObj([p |-> e, q |-> GoodProject]) : e \in ProjectEntries}

\* "quality_score": missing, a string, below 0, on the 0..1 scale, on the
\* 0..100 scale
QualityScores == {JUndef, JStr("0.85", 4), JNum(-50), JNum(85), JNum(8500)}

\* "quality_score_explanation": missing, a number, "", short, long
Explanations ==
  {JUndef, JNum(500), JStr("", 0), JStr("why", 40),
   JStr("why", MaxExplanationLen + 1), JStr("why", MaxTextLen)}

Payload(s, w, p, q, x) ==
  JObj([summary |-> s, work_categories |-> w, project_todos |-> p,
        quality_score |-> q, quality_score_explanation |-> x])

GoodPayload(w) ==
  Payload(JObj([p |-> JStr("p-summary", 120)]), w, JObj([q |-> GoodProject]),
          JNum(85), JStr("why", 40))

Payloads ==
  {Payload(s, w, p, q, x) :
     s \in Summaries, w \in WorkCategoriesValues, p \in ProjectTodosValues,
     q \in QualityScores, x \in Explanations}
    \cup {GoodPayload(WorkCategoriesSumming(total)) : total \in Totals}

Wraps == {"none", "json_fence", "plain_fence"}

\* the payloads as bare JSON; prose, null, a number, a well-formed answer
\* and a defective one bare and in either kind of fence
JsonTexts ==
  {Text("json", "none", body, NoMarkdown) : body \in Payloads}
    \cup {Text("json", wrap, body, NoMarkdown) :
            wrap \in Wraps,
            body \in {Garbage, JNull, JNum(4200),
                      GoodPayload(WorkCategoriesSumming(PercentageTarget)),
                      Payload(JUndef, JUndef, JUndef, JUndef, JUndef)}}

ParserInit ==
  /\ HandlerUnused
  /\ RangeUnused
  /\ PromptUnused
  /\ parser \in {[jsonText |-> text, parsed |-> NotCalled] : text \in JsonTexts}

\* const parsedData = parseSummaryJson(summary)
Parse ==
  /\ parsed = NotCalled
  /\ parser' = [parser EXCEPT !.parsed = parseSummaryJson(jsonText)]

ParserNext == Parse /\ UNCHANGED <<handlerVars, range, prompt>>

ParserSpec == ParserInit /\ [][ParserNext]_vars

(***************************************************************************)
(* summary-prompt.ts: generateSummaryPrompt                                *)
(* The prompt is one template string.  Its text is held as the sequence of *)
(* its pieces in order: the header (instructions, date, project count),    *)
(* the per-project data, the analysis request (with the definitions of the *)
(* seven categories) and the response format (the five-field schema).  A   *)
(* piece has `len` of its `of` characters.  The message bodies of the      *)
(* model hold no blank line, so split("\n\n") gives the bodies back.       *)
(***************************************************************************)
\* the longest userText a caller supplies or the extraction builds
MaxUserTextLen == 200000

MAX_CHARS == 150000
\* "\n\n... (텍스트가 잘렸습니다)"
MarkerLen == 18

\* the template up to ${date}: summary-prompt.ts, and the later version of
\* the file with the list of the five required fields in front
IntroLen == 86
StrictIntroLen == 449
\* "\n총 프로젝트 수: "
ProjectCountLabelLen == 11
\* "\n\n## 프로젝트별 세션 내역\n"
DataHeadingLen == 17
\* "\n### 프로젝트: ", "\n총 ", "개 프롬프트, 총 ", "자\n\n"
BlockHeadingLen == 11
BlockCountLen == 3
BlockTotalLen == 10
BlockBodyLen == 3
\* "\n\n---\n\n# 분석 요청" to the line before the response format
RequestLen == 1539
\* the response format to the end of the template
FormatLen == 1003
StrictFormatLen == 3660

Versions == {"summary-prompt.ts", "part_010"}

Piece(part, len) == [part |-> part, len |-> len, of |-> len]

RECURSIVE Length(_)
\* analysisPrompt.length
Length(pieces) ==
  IF pieces = <<>> THEN 0 ELSE Head(pieces).len + Length(Tail(pieces))

RECURSIVE Digits(_)
\* the length of `${n}`
Digits(n) == IF n < 10 THEN 1 ELSE 1 + Digits(n \div 10)

RECURSIVE JoinedLen(_, _)
\* texts.join(sep).length
JoinedLen(texts, sepLen) ==
  IF texts = <<>> THEN 0
  ELSE Head(texts)[2] + (IF Len(texts) > 1 THEN sepLen ELSE 0)
       + JoinedLen(Tail(texts), sepLen)

\* project.userText.length
totalLength(project) == JoinedLen(project.userText, 2)

\* project.userText.split("\n\n").filter(text => text.trim().length > 0).length
messageCount(project) ==
  Cardinality({i \in 1..Len(project.userText) : project.userText[i][2] > 0})

\* the template of one project
projectBlock(project) ==
  BlockHeadingLen + Len(project.projectName)
  + BlockCountLen + Digits(messageCount(project))
  + BlockTotalLen + Digits(totalLength(project))
  + BlockBodyLen + totalLength(project) + 1

RECURSIVE dataSection(_)
\* projectData.map(...).join("\n")
dataSection(projectData) ==
  IF projectData = <<>> THEN 0
  ELSE projectBlock(Head(projectData)) + (IF Len(projectData) > 1 THEN 1 ELSE 0)
       + dataSection(Tail(projectData))

NonEmpty(pieces) == SelectSeq(pieces, LAMBDA p : p.len > 0)

\* let analysisPrompt = `...`
analysisPrompt(version, date, projectData) ==
  NonEmpty(
    <<Piece("header",
            (IF version = "part_010" THEN StrictIntroLen ELSE IntroLen)
            + Len(date) + ProjectCountLabelLen + Digits(Len(projectData))
            + DataHeadingLen),
      Piece("data", dataSection(projectData)),
      Piece("request", RequestLen),
      Piece("format", IF version = "part_010" THEN StrictFormatLen ELSE FormatLen)>>)

RECURSIVE substring(_, _)
\* analysisPrompt.substring(0, n)
substring(pieces, n) ==
  IF pieces = <<>> \/ n <= 0 THEN <<>>
  ELSE IF Head(pieces).len <= n
       THEN <<Head(pieces)>> \o substring(Tail(pieces), n - Head(pieces).len)
       ELSE <<[Head(pieces) EXCEPT !.len = n]>>

\* if (analysisPrompt.length > MAX_CHARS) the cut text and the marker
limited(pieces) ==
  IF Length(pieces) > MAX_CHARS
  THEN substring(pieces, MAX_CHARS) \o <<Piece("marker", MarkerLen)>>
  ELSE pieces

generateSummaryPrompt(version, date, projectData) ==
  limited(analysisPrompt(version, date, projectData))

\* userText: none, one or two short messages, one long message
UserTexts ==
  {<<>>, <<<<"typed", 25>>>>, <<<<"m1", 30>>, <<"m2", 20>>>>}
    \cup {<<<<"long", MAX_CHARS - k>>>> : k \in {0, 500, 1500, 2600, 2700, 2900}}
    \cup {<<<<"long", MaxUserTextLen>>>>}

PromptProjects ==
  {[projectName |-> name, userText |-> text] :
     name \in {"p", "preview"}, text \in UserTexts}

\* projectData: no project, one, two
ProjectLists ==
  {<<>>} \cup {<<a>> : a \in PromptProjects}
         \cup {<<a, b>> : a \in PromptProjects, b \in PromptProjects}

NotBuilt == <<>>

PromptInit ==
  /\ HandlerUnused
  /\ RangeUnused
  /\ ParserUnused
  /\ prompt \in {[version |-> v, date |-> TheDate, projectData |-> list,
                  analysisPrompt |-> NotBuilt] :
                   v \in Versions, list \in ProjectLists}

\* const analysisPrompt = generateSummaryPrompt(date, projectData)
BuildPrompt ==
  /\ prompt.analysisPrompt = NotBuilt
  /\ prompt' = [prompt EXCEPT !.analysisPrompt =
                  generateSummaryPrompt(prompt.version, prompt.date,
                                        prompt.projectData)]

PromptNext == BuildPrompt /\ UNCHANGED <<handlerVars, range, parser>>

PromptSpec == PromptInit /\ [][PromptNext]_vars

(***************************************************************************)
(* Properties                                                              *)
(***************************************************************************)
\* the request got past the subject lookup
Admitted(r) == req[r].pc # "idle" /\ req[r].resp.status \notin {403, 404}

Finished(r) == req[r].pc = "done"

\* r1 had returned when r2 arrived
Before(r1, r2) == req[r2].pc # "idle" /\ r1 \in req[r2].doneAtArrival

\* both have arrived and neither had returned when the other arrived
Concurrent(r1, r2) ==
  /\ req[r1].pc # "idle" /\ req[r2].pc # "idle"
  /\ r1 \notin req[r2].doneAtArrival
  /\ r2 \notin req[r1].doneAtArrival

\* no request other than r1 and r2 runs between the arrival of r1 and the
\* return of r2
Alone(r1, r2) ==
  \A q \in Requests \ {r1, r2} :
    req[q].pc = "idle" \/ Before(q, r1) \/ Before(r2, q)

\* the request answered with a summary record (generated or cached)
ReturnedRecord(r) ==
  Finished(r) /\ req[r].resp.status = 200 /\ req[r].resp.shape # "no_activity"

\* the response says it was served from the cache
Cached(resp) == "cached" \in DOMAIN resp /\ resp.cached

Field(resp, k) == IF k \in DOMAIN resp THEN resp[k] ELSE JUndef

RecordFields ==
  {"summary", "daily_summary", "work_categories", "project_todos",
   "quality_score", "quality_score_explanation", "parse_errors"}

SameRecord(a, b) == \A k \in RecordFields : Field(a, k) = Field(b, k)

\* C1: two concurrent non-forced requests for the key, both starting with no
\* cached record and both answering with a record, make exactly one GENERATE
\* call between them and return the same record.
C1_SingleFlight ==
  \A r1, r2 \in Requests :
    ( /\ r1 # r2
      /\ Concurrent(r1, r2)
      /\ ~req[r1].force /\ ~req[r2].force
      /\ req[r1].rowsAtArrival = {} /\ req[r2].rowsAtArrival = {}
      /\ ReturnedRecord(r1) /\ ReturnedRecord(r2) )
    => /\ req[r1].nGenerate + req[r2].nGenerate = 1
       /\ SameRecord(req[r1].resp, req[r2].resp)

\* C2: the store holds at most one record for the (subject, date) key in
\* every reachable state.
C2_AtMostOneRecord == Cardinality(RowsOf(store, route)) <= 1

C4_SecondCallIdentical ==
  \A r1, r2 \in Requests :
    ( /\ r1 # r2
      /\ Before(r1, r2) /\ Finished(r2)
      /\ ~req[r1].force /\ ~req[r2].force
      /\ ReturnedRecord(r1)
      /\ req[r1].nGenerate = 1 => req[r1].stored
      /\ Admitted(r2) /\ ~req[r2].missed
      /\ Alone(r1, r2) )
    => /\ req[r2].resp.status = 200
       /\ req[r2].resp.cached
       /\ SameRecord(req[r1].resp, req[r2].resp)

\* C5: a request whose extraction finds zero sessions for the day answers
\* with the fixed no-activity response (cached=false), calls GENERATE not at
\* all and neither deletes nor inserts; a later non-forced request for the
\* key, the cache having been empty and no further request having come in
\* between, is not served from the cache, runs its own extraction and calls
\* GENERATE unless that extraction comes up empty as well.
C5_EmptyDay ==
  \A r \in Requests :
    req[r].emptyDay =>
      /\ Finished(r)
      /\ req[r].resp = NoActivityResponse
      /\ req[r].nGenerate = 0 /\ req[r].nDeletes = 0 /\ req[r].nInserts = 0
      /\ ~req[r].stored
      /\ \A r2 \in Requests \ {r} :
           ( /\ Before(r, r2) /\ Admitted(r2) /\ ~req[r2].force
             /\ req[r].rowsAtArrival = {}
             /\ Alone(r, r2) )
           => /\ req[r2].rowsAtArrival = {}
              /\ ~Cached(req[r2].resp)
              /\ req[r2].nGenerate = 1
                 \/ (Finished(r2) /\ req[r2].resp = NoActivityResponse)

\* an empty day answered, then a non-forced request for the key generating
C5_Witness ==
  \E r, r2 \in Requests :
    /\ req[r].emptyDay /\ Finished(r) /\ req[r].nSessionReads = 1
    /\ req[r].rowsAtArrival = {}
    /\ Before(r, r2) /\ ~req[r2].force /\ Alone(r, r2)
    /\ req[r2].nReads = 1 /\ req[r2].nSessionReads = 1 /\ req[r2].nGenerate = 1

\* C6: a request with forceRegenerate=true never reads the cache and is
\* never answered from it: it extracts and calls GENERATE unless the
\* extraction yields no project text, whether or not a record is cached.
C6_ForceSkipsCache ==
  \A r \in Requests :
    (req[r].force /\ Admitted(r)) =>
      /\ req[r].nReads = 0
      /\ ~req[r].missed
      /\ ~Cached(req[r].resp)
      /\ req[r].nGenerate = 1
         \/ (Finished(r) /\ req[r].resp = NoActivityResponse)

\* a forced request calling GENERATE while a record is cached for the key
C6_Witness ==
  \E r \in Requests :
    /\ req[r].force /\ req[r].rowsAtArrival # {}
    /\ req[r].pc = "generating" /\ req[r].nGenerate = 1
    /\ RowsOf(store, route) # {}

\* C7: after a forced regeneration for a key that had a record, with the
\* generation and the storage succeeding and no other request after it, the
\* store holds exactly one record for the key, a row that was not there
\* before and whose text is the one this request generated.
C7_ForcedReplaces ==
  \A r \in Requests :
    ( /\ req[r].force /\ Finished(r)
      /\ req[r].rowsAtArrival # {}
      /\ req[r].nGenerate = 1 /\ req[r].stored
      /\ \A q \in Requests \ {r} : req[q].pc = "idle" \/ Before(q, r) )
    => /\ Cardinality(RowsOf(store, route)) = 1
       /\ \A row \in RowsOf(store, route) :
            /\ row.created_at \notin req[r].rowsAtArrival
            /\ row.summary_text = req[r].resp.summary

\* C8: a request whose GENERATE call threw ends with an error response and
\* has made no delete and no insert, forced or not; when no other request
\* ran beside or after it the rows of the key are the ones it found.
C8_GenerateFailureLeavesCache ==
  \A r \in Requests :
    req[r].generateThrew =>
      /\ Finished(r)
      /\ req[r].resp = ErrorResponse(500)
      /\ req[r].nGenerate = 1
      /\ req[r].nDeletes = 0 /\ req[r].nInserts = 0 /\ ~req[r].stored
      /\ (\A q \in Requests \ {r} : req[q].pc = "idle" \/ Before(q, r))
         => {row.created_at : row \in RowsOf(store, route)} = req[r].rowsAtArrival

\* a forced request whose GENERATE threw, the earlier record still stored
C8_Witness ==
  \E r \in Requests :
    /\ req[r].generateThrew /\ req[r].force
    /\ req[r].rowsAtArrival # {}
    /\ \A q \in Requests \ {r} : req[q].pc = "idle" \/ Before(q, r)
    /\ {row.created_at : row \in RowsOf(store, route)} = req[r].rowsAtArrival

\* C9: on the guest route, a request whose model output could not be decoded
\* (parseSummaryJson reports the decode error, parseSuccess=false) writes no
\* record for the key.
C9_UndecodableNotStored ==
  \A r \in Requests :
    ( /\ route = "guest"
      /\ Finished(r) /\ req[r].resp.status = 200
      /\ req[r].resp.shape = "generated"
      /\ ~req[r].resp.parsed_data.parseSuccess
      /\ \E i \in 1..Len(req[r].resp.parse_errors) :
           req[r].resp.parse_errors[i].code = "json_parse" )
    => /\ req[r].nInserts = 0
       /\ ~req[r].stored
       /\ \A row \in RowsOf(store, route) :
            row.summary_text # req[r].resp.summary

\* C10: a request whose cache write failed after a successful generation
\* answers 200 with success, cached=false, the generated text and the record
\* parsed from it.
C10_WriteFailureStillAnswers ==
  \A r \in Requests :
    (Finished(r) /\ req[r].nInserts = 1 /\ ~req[r].stored) =>
      /\ req[r].resp.status = 200
      /\ req[r].resp.success
      /\ req[r].resp.shape = "generated"
      /\ req[r].resp.cached = FALSE
      /\ req[r].resp.summary \in TextsOf(route)
      /\ req[r].resp.parsed_data =
           IF route = "guest" THEN parsedJson[req[r].resp.summary]
           ELSE parsedMarkdown[req[r].resp.summary]

\* a failed insert on the guest route, a failed upsert on the teams route
C10_Witness ==
  \E r \in Requests :
    /\ Finished(r) /\ req[r].nGenerate = 1 /\ req[r].nInserts = 1
    /\ ~req[r].stored
    /\ req[r].resp.status = 200
    /\ req[r].resp.parsed_data.parseSuccess

RangeAnswered == batch.pc = "done" /\ batch.resp.status # 403

\* the dates of the inclusive range [startDate, endDate]
InclusiveRange(b) == b.startDate..b.endDate

\* the last settled per-date call went where its outcome sends it
LastCallFiled(b) ==
  /\ b.lastOutcome = "ok" =>
       b.generatedDates[Len(b.generatedDates)] = b.lastDate
  /\ b.lastOutcome \in {"not_ok", "throw"} =>
       b.skippedDates[Len(b.skippedDates)] = b.lastDate

\* C11: an admitted range request is answered with success, generated_dates
\* and skipped_dates are disjoint and together are exactly the dates of the
\* inclusive range [startDate, endDate]; a per-date call that fails or throws
\* puts its date in skipped_dates, and the loop goes on to the last date.
C11_RangePartition ==
  /\ LastCallFiled(batch)
  /\ RangeAnswered =>
       /\ batch.resp.success
       /\ batch.next = Len(batch.datesToGenerate) + 1
       /\ SeqToSet(batch.resp.generated_dates)
            \cap SeqToSet(batch.resp.skipped_dates) = {}
       /\ SeqToSet(batch.resp.generated_dates)
            \cup SeqToSet(batch.resp.skipped_dates) = InclusiveRange(batch)

\* the dates that got a per-date call so far
CalledDates(b) == {b.datesToGenerate[i] : i \in 1..(b.next - 1)}

\* the days of the range that had a stored summary when the request arrived
CachedInRange(b) == b.cachedAtStart \cap InclusiveRange(b)

\* C12: a non-forced range request whose lookup of the stored summaries
\* succeeded makes no per-date call for a day of the range that had a stored
\* summary on arrival and reports that day in skipped_dates; it makes one
\* per-date call for each other day of the range (six calls for a range of
\* seven days with one stored day).
C12_CachedDatesNotCalled ==
  (RangeAnswered /\ ~batch.force /\ batch.queryOk) =>
    /\ \A d \in CachedInRange(batch) :
         /\ d \notin CalledDates(batch)
         /\ d \in SeqToSet(batch.resp.skipped_dates)
    /\ batch.next - 1 =
         Cardinality(InclusiveRange(batch)) - Cardinality(CachedInRange(batch))

\* C13: at most one per-date call of the range request is in flight, and it
\* is the call for the date taken last: the call for a date starts only when
\* every earlier call has settled.
C13_Sequential ==
  /\ Cardinality(calls) <= 1
  /\ calls \subseteq {batch.next - 1}
  /\ calls # {} <=> batch.pc = "awaiting"

\* the second date's call is in flight after the first date's call settled
C13_Witness ==
  /\ calls = {2}
  /\ Len(batch.generatedDates) + Len(batch.skippedDates) = 1

(***************************************************************************)
(* Properties of parseSummaryJson                                          *)
(***************************************************************************)
\* the call has been made
Called == "called" \notin DOMAIN parsed

\* it returned a record to its caller
Returned == Called /\ DOMAIN parsed = DOMAIN DefaultParsed

\* the text is JSON once a ```json fence around it is taken off
Decodable(text) == text.wrap \in {"none", "json_fence"} /\ text.body # Garbage

HasError(errors, code) == \E i \in 1..Len(errors) : errors[i].code = code

\* C15: parseSummaryJson returns for every text; for a text that cannot be
\* decoded it returns parseSuccess = false, the default record and the
\* decode error.
C15_NeverThrows ==
  Called =>
    /\ Returned
    /\ ~Decodable(jsonText) =>
         /\ ~parsed.parseSuccess
         /\ DOMAIN parsed.summary = {}
         /\ parsed.work_categories = getEmptyWorkCategories
         /\ DOMAIN parsed.project_todos = {}
         /\ parsed.quality_score = 0
         /\ parsed.quality_score_explanation = JStr("", 0)
         /\ HasError(parsed.errors, "json_parse")

\* a well-formed payload in a fence without the json tag has been parsed
C15_Witness ==
  /\ Returned
  /\ jsonText.wrap = "plain_fence"
  /\ jsonText.body = GoodPayload(WorkCategoriesSumming(PercentageTarget))
  /\ HasError(parsed.errors, "json_parse")

\* the payload's project_todos map, when the text decodes to one
TodosOf(text) == Get(text.body, "project_todos")

HasTodosMap(text) ==
  Decodable(text) /\ text.body.t = "obj" /\ TodosOf(text).t = "obj"

\* an object (not an array) with a todos array
WellFormedEntry(e) == e.t = "obj" /\ Get(e, "todos").t = "arr"

\* the same text with key k taken out of project_todos
WithoutKey(text, k) ==
  [text EXCEPT !.body = JObj([text.body.v EXCEPT !["project_todos"] =
     JObj([j \in DOMAIN TodosOf(text).v \ {k} |-> TodosOf(text).v[j]])])]

SameMap(a, b) == DOMAIN a = DOMAIN b /\ \A j \in DOMAIN a : a[j] = b[j]

NotAbout(errors, k) == SelectSeq(errors, LAMBDA e : e.key # k)

\* the record is what the other record is, but for key k and its errors
AsIfAbsent(a, b, k) ==
  /\ SameMap(a.summary, b.summary)
  /\ a.work_categories = b.work_categories
  /\ SameMap([j \in DOMAIN a.project_todos \ {k} |-> a.project_todos[j]],
             b.project_todos)
  /\ a.quality_score = b.quality_score
  /\ a.quality_score_explanation = b.quality_score_explanation
  /\ NotAbout(a.errors, k) = b.errors

\* C16: when the value under key p of project_todos is not an object with a
\* todos array, the returned record has no project_todos entry for p, its
\* errors name p, and the rest of the record is what it would be without p.
C16_MalformedEntryDropped ==
  ( /\ Returned
    /\ HasTodosMap(jsonText)
    /\ "p" \in DOMAIN TodosOf(jsonText).v
    /\ ~WellFormedEntry(TodosOf(jsonText).v["p"]) )
  => /\ "p" \notin DOMAIN parsed.project_todos
     /\ \E i \in 1..Len(parsed.errors) : parsed.errors[i].key = "p"
     /\ AsIfAbsent(parsed, parseSummaryJson(WithoutKey(jsonText, "p")), "p")

\* the text is the well-formed payload whose percentages add up to `total`
SumsTo(text, total) ==
  /\ text.wrap = "none"
  /\ text.body = GoodPayload(WorkCategoriesSumming(total))

\* C17: for a payload with a non-empty summary and no other defect whose
\* percentages add up to 97 or to 103, the record carries the percentage-sum
\* warning and parseSuccess is true.
C17_WarningKeepsSuccess ==
  (Returned /\ (SumsTo(jsonText, 9700) \/ SumsTo(jsonText, 10300)))
  => /\ HasError(parsed.errors, "percentage_sum")
     /\ parsed.parseSuccess

\* the payload carries work_categories that validateWorkCategories is given
CategoriesValidated(text) ==
  /\ Decodable(text)
  /\ Truthy(Get(text.body, "work_categories"))
  /\ IsObjectType(Get(text.body, "work_categories"))

\* the sum of the seven percentages of the returned categories
TotalOf(record) == SumPercentage(record.work_categories, 1)

\* C18: validateWorkCategories leaves a percentage-sum warning exactly when
\* the sum of the seven clamped percentages is more than 1 away from 100,
\* for every sum from 0 to 700.
C18_WarningIffDeviates ==
  (Returned /\ CategoriesValidated(jsonText))
  => ( HasError(parsed.errors, "percentage_sum")
       <=> Abs(TotalOf(parsed) - PercentageTarget) > PercentageTolerance )

\* C19: every value of the summary map of a returned record is a string of
\* at most 500 characters.
C19_SummaryValuesBounded ==
  Returned =>
    \A k \in DOMAIN parsed.summary :
      /\ parsed.summary[k].t = "str"
      /\ parsed.summary[k].v[2] <= 500

\* the category is missing from the payload's work_categories, or is not an
\* object there
AbsentCategory(text, c) ==
  ~Decodable(text)
    \/ ~(Truthy(Get(Get(text.body, "work_categories"), c))
          /\ IsObjectType(Get(Get(text.body, "work_categories"), c)))

\* C20: a returned record has exactly the seven categories, each with
\* minutes >= 0 and a percentage from 0 to 100 (10000 hundredths), zero and
\* null for a category the payload does not give; its quality_score is from
\* 0 to 1 (100 hundredths) and its explanation has at most 300 characters.
C20_WithinRanges ==
  Returned =>
    /\ DOMAIN parsed.work_categories = CategoryNames
    /\ \A c \in CategoryNames :
         /\ parsed.work_categories[c].minutes >= 0
         /\ parsed.work_categories[c].percentage \in 0..10000
         /\ AbsentCategory(jsonText, c) =>
              parsed.work_categories[c] =
                [minutes |-> 0, percentage |-> 0, description |-> JNull]
    /\ parsed.quality_score \in 0..100
    /\ parsed.quality_score_explanation.t = "str"
    /\ parsed.quality_score_explanation.v[2] <= 300

\* a payload with a 0-100 quality score, a category with negative minutes
\* and 150 percent, and a long explanation has been parsed
C20_Witness ==
  /\ Returned
  /\ Get(jsonText.body, "quality_score") = JNum(8500)
  /\ parsed.quality_score = 100
  /\ Get(Get(jsonText.body, "work_categories"), "backend") = Cat(-500, 15000, JNum(7))
  /\ parsed.work_categories["backend"].minutes = 0
  /\ parsed.work_categories["backend"].percentage = 10000
  /\ Get(jsonText.body, "quality_score_explanation") = JStr("why", MaxTextLen)
  /\ parsed.quality_score_explanation = JStr("why", 300)

(***************************************************************************)
(* Further properties of the generate-summary handlers                     *)
(***************************************************************************)
\* request r arrives in this step with the body's projectTexts, and its
\* answer, if it has one already, is not the cached record (the day's data
\* is not read when texts are supplied: any day stands for all)
ArrivesWith(r, projectTexts) ==
  /\ req[r].pc = "idle"
  /\ req'[r].pc # "idle"
  /\ \E ok \in BOOLEAN, dayOk \in BOOLEAN,
        day \in (IF Len(projectTexts.list) > 0 THEN {DayEmpty} ELSE DayData) :
       Arrive(r, req'[r].force, projectTexts, ok, day, dayOk)
  /\ ~Cached(req'[r].resp)

\* no session-store read, and the texts of the body go to the prompt builder
ExtractionSkipped(rq, projectTexts) ==
  /\ rq.nSessionReads = 0
  /\ rq.pc = "generating" => rq.projectData = projectTexts.list

\* C23 as stated: whenever the body carries projectTexts (an empty list
\* included) and the request gets past the cache check, the handler reads
\* nothing from the session store and hands the supplied texts to the prompt
\* builder.
C23_Original ==
  [][\A r \in Requests, projectTexts \in SuppliedTexts :
       (projectTexts.given /\ ArrivesWith(r, projectTexts))
         => ExtractionSkipped(req'[r], projectTexts)]_vars

\* C23, amended: whenever the body carries a non-empty projectTexts list and
\* the request gets past the cache check, the handler reads nothing from the
\* session store and calls the generation with exactly the supplied texts.
C23_SuppliedTextsSkipExtraction ==
  [][\A r \in Requests, projectTexts \in SuppliedTexts :
       (Len(projectTexts.list) > 0 /\ ArrivesWith(r, projectTexts))
         => /\ ExtractionSkipped(req'[r], projectTexts)
            /\ req'[r].pc = "generating"]_vars

\* a request whose body carried texts waits for the generation, having read
\* nothing from the session store
C23_Witness ==
  \E r \in Requests, projectTexts \in SuppliedTexts :
    /\ Len(projectTexts.list) > 0
    /\ req[r].pc = "generating"
    /\ req[r].projectData = projectTexts.list
    /\ req[r].nSessionReads = 0
    /\ req[r].nReads = 1

\* C24: every record the generate-summary handlers write to
\* daily_ai_summaries has exactly one non-null subject reference: user_id or
\* guest_user_id, never both and never neither.
C24_OneSubject ==
  \A row \in store : (row.user_id = NullId) # (row.guest_user_id = NullId)

\* the teams handler has stored a record for the registered user
C24_Witness ==
  \E row \in store :
    /\ row.user_id = SubjectOf("teams")
    /\ row.guest_user_id = NullId
    /\ \E r \in Requests : req[r].stored /\ req[r].resp.status = 200

\* no request other than r has run since r arrived
NoneBeside(r) == \A q \in Requests \ {r} : req[q].pc = "idle" \/ Before(q, r)

StoredIds == {row.created_at : row \in RowsOf(store, route)}

\* C27: a request with forceRegenerate = false deletes and replaces no
\* cached record: when it found records for the key on arrival and no other
\* request ran beside it, those records are still stored when it returns,
\* also when its cache read failed.
C27_UnforcedKeepsRecord ==
  \A r \in Requests :
    (~req[r].force /\ Finished(r) /\ Admitted(r) /\ NoneBeside(r))
      => req[r].rowsAtArrival \subseteq StoredIds

\* C28: a forced regeneration for a key that had a record leaves the key with
\* a record, whatever the outcomes of the generation, the delete and the
\* insert (no other request running beside it).
C28_ForcedKeepsSomeRecord ==
  \A r \in Requests :
    ( /\ req[r].force /\ Finished(r) /\ Admitted(r)
      /\ req[r].rowsAtArrival # {}
      /\ NoneBeside(r) )
    => RowsOf(store, route) # {}

\* C30: generateWithClaude is called only when at least one of the project
\* texts handed to the prompt builder has user text: a day whose sessions
\* hold no user-authored plain-string message gets no generation call.
C30_GenerateOnlyWithUserText ==
  \A r \in Requests :
    req[r].pc = "generating" =>
      \E i \in 1..Len(req[r].projectData) : totalLength(req[r].projectData[i]) > 0

(***************************************************************************)
(* Further properties of the range handler                                 *)
(***************************************************************************)
\* C29: after the range handler has answered, every date listed in
\* generated_dates has a stored summary record of the user.
C29_GeneratedDatesStored ==
  RangeAnswered =>
    \A i \in 1..Len(batch.resp.generated_dates) :
      batch.resp.generated_dates[i] \in batch.stored

(***************************************************************************)
(* Properties of generateSummaryPrompt                                     *)
(***************************************************************************)
\* generateSummaryPrompt has returned
Built == prompt.analysisPrompt # NotBuilt

\* the template's length before the limit is applied
Rendered == Length(analysisPrompt(prompt.version, prompt.date, prompt.projectData))

\* the piece is in the prompt with all its characters
Complete(pieces, part) ==
  \E i \in 1..Len(pieces) : pieces[i].part = part /\ pieces[i].len = pieces[i].of

\* the marker comes right after the data
MarkerEndsData(pieces) ==
  \E i \in 1..(Len(pieces) - 1) :
    pieces[i].part = "data" /\ pieces[i + 1].part = "marker"

\* C21: for every date and every list of project texts, the prompt that
\* generateSummaryPrompt returns has at most 150,000 characters.
C21_PromptWithinLimit ==
  Built => Length(prompt.analysisPrompt) <= MAX_CHARS

\* C22: when the rendered prompt would exceed the limit only the per-project
\* data is cut: the returned prompt still holds the whole analysis request
\* (the seven category names) and the whole response format (the five-field
\* schema), and the "text truncated" marker ends the data.
C22_OnlyDataCut ==
  (Built /\ Rendered > MAX_CHARS) =>
    /\ Complete(prompt.analysisPrompt, "request")
    /\ Complete(prompt.analysisPrompt, "format")
    /\ MarkerEndsData(prompt.analysisPrompt)

(***************************************************************************)
(* Further properties of parseSummaryJson                                  *)
(***************************************************************************)
\* C25: for every decodable payload parseSuccess is true exactly when the
\* returned summary map is non-empty and the returned errors list is empty.
C25_SuccessDetermination ==
  (Returned /\ Decodable(jsonText)) =>
    (parsed.parseSuccess <=> (DOMAIN parsed.summary # {} /\ parsed.errors = <<>>))

\* a payload with a project summary and one rejected field has been parsed:
\* no success although the summary map is not empty
C25_Witness ==
  /\ Returned
  /\ Decodable(jsonText)
  /\ DOMAIN parsed.summary # {}
  /\ Len(parsed.errors) = 1
  /\ ~parsed.parseSuccess

FieldNames ==
  {"summary", "work_categories", "project_todos", "quality_score",
   "quality_score_explanation"}

\* the values the payloads of the model take under a field
ValuesOfField(k) ==
  CASE k = "summary" -> Summaries
    [] k = "work_categories" -> WorkCategoriesValues
    [] k = "project_todos" -> ProjectTodosValues
    [] k = "quality_score" -> QualityScores
    [] k = "quality_score_explanation" -> Explanations

\* the payload has the five fields (a missing field is undefined)
HasFields(text) ==
  Decodable(text) /\ text.body.t = "obj" /\ DOMAIN text.body.v = FieldNames

\* the same text but for the value of one field
WithField(text, k, v) == [text EXCEPT !.body.v[k] = v]

\* the field an error is about
ErrorField(e) ==
  CASE e.code = "summary_invalid" -> "summary"
    [] e.code \in {"work_categories_invalid", "percentage_sum"} -> "work_categories"
    [] e.code \in {"project_todos_invalid", "todos_not_array", "todo_invalid"} ->
         "project_todos"
    [] e.code = "quality_score_invalid" -> "quality_score"
    [] e.code = "explanation_invalid" -> "quality_score_explanation"
    [] OTHER -> "none"

ErrorsNotAbout(errors, k) == SelectSeq(errors, LAMBDA e : ErrorField(e) # k)

\* the two records agree on the fields other than k and on the errors about
\* them, and the second is a whole record
SameButFor(record, other, k) ==
  /\ DOMAIN other = DOMAIN DefaultParsed
  /\ \A f \in FieldNames \ {k} : other[f] = record[f]
  /\ ErrorsNotAbout(other.errors, k) = ErrorsNotAbout(record.errors, k)

====
